---------------------------- MODULE Spec2Model ----------------------------
(***************************************************************************)
(* Indoor-Map-GUIs: the two alignment tools.                               *)
(*                                                                         *)
(*   alignment_gui.py    PointCloudAligner, the two-pane correspondence    *)
(*                       picker with a thin-plate-spline overlay           *)
(*   alignment_gui_0.py  AlignmentGUI, the single-pane gesture tool        *)
(*                       (move / zoom / rotate / deform)                   *)
(*                                                                         *)
(* One behaviour is one run of the data directory: `tool` says which       *)
(* program is started on it.  Both programs are single-threaded Tk event   *)
(* loops, so every action below is one whole callback.  A callback that    *)
(* raises is reported by the event loop (the traceback is printed) and the *)
(* session goes on with whatever the callback had assigned before the      *)
(* raise; a raise inside __init__ ends the process.                        *)
(*                                                                         *)
(* Numbers.  Coordinates are Python floats.  The model takes them from the *)
(* floats with one decimal digit and stores such a float v as the integer  *)
(* 10*v, so that str() and float() are conversions between numbers and     *)
(* character sequences.  In the gesture tool the arithmetic is the exact   *)
(* rational one (zoom factors 11/10 and 9/10) on a grid fine enough for    *)
(* MaxZoom zoom steps.                                                     *)
(***************************************************************************)
EXTENDS Integers, Sequences, FiniteSets, TLC

VARIABLES
    tool,                 \* "aligner" | "gesture": which main() runs
    map_exists,           \* <slam_path>/map_points.txt exists
    session,              \* "running" | "crashed" (an exception left main or __init__)
    handler,              \* PointCloudAligner: the callback Tk ran last, and whether it raised
    \* ---- PointCloudAligner (alignment_gui.py)
    kf_points,            \* self.kf_points
    floor_points,         \* self.floor_points
    selected_kf_point,    \* self.selected_kf_point
    selected_floor_point, \* self.selected_floor_point
    status_var,           \* self.status_var
    file,                 \* <slam_path>/correspondences.txt
    fit,                  \* the estimator step of the last redraw (lines 139-149)
    canvas,               \* what the last completed canvas.draw() put on screen
    \* ---- AlignmentGUI (alignment_gui_0.py)
    mode,                 \* self.mode
    last_mouse_pos,       \* self.last_mouse_pos
    deform_start,         \* self.deform_start
    control_src,          \* self.control_src
    control_dst,          \* self.control_dst
    kf,                   \* self.kf, the projected trajectory
    pc,                   \* self.pc, the projected point cloud
    stdout,               \* the last line print() wrote
    pressed,              \* the mouse button is held down (the environment)
    press_at              \* while it is held: where the pointer was at the press

alignerVars == <<kf_points, floor_points, selected_kf_point, selected_floor_point,
                 status_var, file, fit, canvas>>
gestureVars == <<mode, last_mouse_pos, deform_start, control_src, control_dst,
                 kf, pc, stdout, pressed, press_at>>
vars == <<tool, map_exists, session, handler, alignerVars, gestureVars>>

(***************************************************************************)
(* Bounds of the model.                                                    *)
(***************************************************************************)
\* The store is capped at MaxPairs pairs (Add is disabled beyond it).
MaxPairs == 4
\* At most MaxControl deform pairs are recorded in one session.
MaxControl == 3
\* The geometry grid is fine enough for MaxZoom exact zoom steps.
MaxZoom == 2
\* Panning keeps the trajectory's centroid within PanRange drag steps of its
\* start.
PanRange == 1

\* Python's None.
None == <<>>

\* self.mode = None: no interaction mode selected yet.
NoMode == "None"

\* Idiom: CHOOSE r \in {F(x) : x \in {e}} : TRUE is F(e) with e evaluated once.

Range(s) == {s[i] : i \in 1..Len(s)}

Abs(n) == IF n < 0 THEN -n ELSE n

(***************************************************************************)
(* str(float) and float(str).  A text is a TLA+ string, that is a sequence *)
(* of characters: Len, \o, Head, Tail and SubSeq apply to it.              *)
(***************************************************************************)
Digits == "0123456789"

DigitText(d) == SubSeq(Digits, d + 1, d + 1)

DigitChars == {"0", "1", "2", "3", "4", "5", "6", "7", "8", "9"}

IsDigit(c) == c \in DigitChars

DigitVal(c) ==
    CASE c = "0" -> 0 [] c = "1" -> 1 [] c = "2" -> 2 [] c = "3" -> 3 [] c = "4" -> 4
      [] c = "5" -> 5 [] c = "6" -> 6 [] c = "7" -> 7 [] c = "8" -> 8 [] c = "9" -> 9

RECURSIVE NatText(_)
NatText(n) ==
    IF n < 10 THEN DigitText(n)
    ELSE NatText(n \div 10) \o DigitText(n % 10)

RECURSIVE NatVal(_)
NatVal(cs) ==
    IF cs = "" THEN 0
    ELSE 10 * NatVal(SubSeq(cs, 1, Len(cs) - 1)) + DigitVal(SubSeq(cs, Len(cs), Len(cs)))

\* f"{x}" of a float x: sign, integer digits, the point, the decimal digit.
FloatText(v) ==
    (IF v < 0 THEN "-" ELSE "") \o NatText(Abs(v) \div 10) \o "." \o DigitText(Abs(v) % 10)

\* The line save_correspondences writes for one pair.
LineText(kf_pt, fl_pt) ==
    FloatText(kf_pt[1]) \o " " \o FloatText(kf_pt[2]) \o " "
        \o FloatText(fl_pt[1]) \o " " \o FloatText(fl_pt[2]) \o "\n"

IsSpace(c) == c \in {" ", "\n", "\t"}

\* str.strip()
RECURSIVE Strip(_)
Strip(s) ==
    IF s = "" THEN s
    ELSE IF IsSpace(Head(s)) THEN Strip(Tail(s))
    ELSE IF IsSpace(SubSeq(s, Len(s), Len(s))) THEN Strip(SubSeq(s, 1, Len(s) - 1))
    ELSE s

\* str.split(): the maximal runs of non-space characters of s from
\* position i on, the run in progress starting at position from.
RECURSIVE SplitFrom(_, _, _)
SplitFrom(s, from, i) ==
    IF i > Len(s) THEN (IF from < i THEN <<SubSeq(s, from, i - 1)>> ELSE <<>>)
    ELSE IF IsSpace(SubSeq(s, i, i))
         THEN (IF from < i THEN <<SubSeq(s, from, i - 1)>> ELSE <<>>)
                  \o SplitFrom(s, i + 1, i + 1)
         ELSE SplitFrom(s, from, i + 1)

Split(s) == SplitFrom(s, 1, 1)

\* Whether every character of cs is a digit.
RECURSIVE AllDigits(_)
AllDigits(cs) == cs = "" \/ (IsDigit(Head(cs)) /\ AllDigits(Tail(cs)))

\* The position of the first "." of cs from position i on, Len(cs) + 1 if none.
RECURSIVE DotFrom(_, _)
DotFrom(cs, i) ==
    IF i > Len(cs) \/ SubSeq(cs, i, i) = "." THEN i ELSE DotFrom(cs, i + 1)

\* float(tok): [ok, val]; ok = FALSE is Python's ValueError.  Only texts with
\* at most one decimal digit denote a number of the model.
FloatOfParts(negative, ip, fp) ==
    IF AllDigits(ip) /\ AllDigits(fp) /\ Len(ip) + Len(fp) >= 1 /\ Len(fp) <= 1
    THEN [ok |-> TRUE,
          val |-> (IF negative THEN -1 ELSE 1) * (10 * NatVal(ip) + NatVal(fp))]
    ELSE [ok |-> FALSE, val |-> 0]

FloatOfSigned(negative, body) ==
    CHOOSE r \in {FloatOfParts(negative, SubSeq(body, 1, dot - 1),
                                         SubSeq(body, dot + 1, Len(body)))
                     : dot \in {DotFrom(body, 1)}} : TRUE

ParseFloat(tok) ==
    IF tok # "" /\ Head(tok) \in {"-", "+"}
    THEN FloatOfSigned(Head(tok) = "-", Tail(tok))
    ELSE FloatOfSigned(FALSE, tok)

(***************************************************************************)
(* PointCloudAligner: the inputs of the model.                             *)
(***************************************************************************)
\* Click positions in the top pane (projected SLAM coordinates) and in the
\* bottom pane (floorplan pixels), as floats times ten.
KfClicks == << <<-15, 20>>, <<0, 5>>, <<5, -120>>, <<32, 7>> >>

FloorClicks == << <<1205, 330>> >>

\* The user marks keyframes along the trajectory: a click in the top pane is
\* never at a keyframe before the one of the last stored pair.  (This bounds
\* the stores the model visits; equal and distinct source points both occur.)
KfIndex(p) == CHOOSE i \in 1..Len(KfClicks) : KfClicks[i] = p

ClickableKf(kfp) ==
    {KfClicks[i] : i \in {j \in 1..Len(KfClicks) :
                            kfp = <<>> \/ j >= KfIndex(kfp[Len(kfp)])}}

\* What correspondences.txt may hold when the first session starts: nothing
\* (no file), saves of earlier sessions, and a hand-edited file whose second
\* line lacks a number.
FileOf(lines) == [exists |-> TRUE, lines |-> lines]

NoFile == [exists |-> FALSE, lines |-> <<>>]

InitFiles ==
    { NoFile,
      FileOf(<<>>),
      FileOf(<<LineText(KfClicks[1], FloorClicks[1])>>),
      FileOf(<<LineText(KfClicks[2], FloorClicks[1]),
               LineText(KfClicks[3], FloorClicks[1])>>),
      FileOf(<<LineText(KfClicks[1], FloorClicks[1]),
               "0.5 1.0 2.0\n">>) }


(***************************************************************************)
(* PointCloudAligner: load, redraw and the start of a session.             *)
(***************************************************************************)
\* A fault: redraw fitting the spline one pair early.
MinTpsPairsEarly == 4 - 1

\* The least number of pairs redraw fits a thin-plate spline from.
MinTpsPairs == 4

\* scipy's Rbf(..., function='thin_plate') solves the kernel system of the
\* source points; two equal source points give two equal rows, and the solve
\* raises LinAlgError.  Arrays of different lengths raise as well.
RbfRaises(src, dst) ==
    \/ Len(src) # Len(dst)
    \/ \E i, j \in 1..Len(src) : i < j /\ src[i] = src[j]

\* kx, ky, fx, fy = map(float, toks): raised is the ValueError of a token
\* that is no number, or of a line that does not hold four of them.
UnpackFour(nums) ==
    IF Len(nums) # 4 \/ \E i \in 1..Len(nums) : ~nums[i].ok
    THEN [raised |-> TRUE, kf_pt |-> None, fl_pt |-> None]
    ELSE [raised |-> FALSE,
          kf_pt |-> <<nums[1].val, nums[2].val>>,
          fl_pt |-> <<nums[3].val, nums[4].val>>]

MapFloat(toks) ==
    CHOOSE r \in {UnpackFour(nums)
                     : nums \in {[i \in 1..Len(toks) |-> ParseFloat(toks[i])]}} : TRUE

\* line.strip().split(), then the unpacking.
ParseLine(line) ==
    CHOOSE r \in {MapFloat(toks) : toks \in {Split(Strip(line))}} : TRUE

\* ParseLine, tabulated once for the lines the model's files are made of (the
\* same values; any other line is parsed on the spot).
TabulatedLines ==
    UNION {Range(f.lines) : f \in InitFiles}
        \cup {LineText(k, p) : k \in Range(KfClicks), p \in Range(FloorClicks)}

ParseTable == [line \in TabulatedLines |-> ParseLine(line)]

ParsedLine(line) ==
    IF line \in TabulatedLines THEN ParseTable[line] ELSE ParseLine(line)

\* load_correspondences' loop over the lines of the file, appending to the
\* lists it is given; it stops at the first line that raises.
RECURSIVE LoadLines(_, _, _)
LoadParsed(lines, kfp, flp, r) ==
    IF r.raised
    THEN [raised |-> TRUE, kf_points |-> kfp, floor_points |-> flp]
    ELSE LoadLines(Tail(lines), Append(kfp, r.kf_pt), Append(flp, r.fl_pt))

LoadLines(lines, kfp, flp) ==
    IF lines = <<>> THEN [raised |-> FALSE, kf_points |-> kfp, floor_points |-> flp]
    ELSE CHOOSE out \in {LoadParsed(lines, kfp, flp, r) : r \in {ParsedLine(lines[1])}} : TRUE

NoStatus == <<"", 0>>

Loaded(r, status) ==
    [raised |-> r.raised, kf_points |-> r.kf_points, floor_points |-> r.floor_points,
     status_var |-> IF r.raised THEN status ELSE <<"Loaded", Len(r.kf_points)>>]

load_correspondences(f, kfp, flp, status) ==
    IF ~f.exists
    THEN [raised |-> FALSE, kf_points |-> kfp, floor_points |-> flp, status_var |-> status]
    ELSE CHOOSE out \in {Loaded(r, status) : r \in {LoadLines(f.lines, kfp, flp)}} : TRUE

NoFit == [estimator |-> "None", src |-> <<>>, dst |-> <<>>, drawn |-> FALSE]

BlankCanvas == [markers |-> 0, aligned |-> FALSE, src |-> <<>>, dst |-> <<>>]

\* redraw: both axes are cleared, the floor markers are plotted, then with
\* MinTpsPairs pairs or more the spline is fitted from the store and the
\* aligned overlay is plotted; canvas.draw() is the last statement, so a fit
\* that raises leaves the screen as it was.
redraw(kfp, flp, shown) ==
    IF Len(kfp) >= MinTpsPairs
    THEN IF RbfRaises(kfp, flp)
         THEN [raised |-> TRUE,
               fit |-> [estimator |-> "NonRigid", src |-> kfp, dst |-> flp, drawn |-> FALSE],
               canvas |-> shown]
         ELSE [raised |-> FALSE,
               fit |-> [estimator |-> "NonRigid", src |-> kfp, dst |-> flp, drawn |-> TRUE],
               canvas |-> [markers |-> Len(flp), aligned |-> TRUE, src |-> kfp, dst |-> flp]]
    ELSE [raised |-> FALSE, fit |-> NoFit,
          canvas |-> [markers |-> Len(flp), aligned |-> FALSE, src |-> <<>>, dst |-> <<>>]]

\* PointCloudAligner.__init__ on a directory whose correspondences file is f:
\* empty lists, no selection, then load_correspondences and redraw.
Constructed(l, d) ==
    [session    |-> IF l.raised \/ d.raised THEN "crashed" ELSE "running",
     kf_points  |-> l.kf_points,
     floor_points |-> l.floor_points,
     status_var |-> l.status_var,
     fit        |-> IF l.raised THEN NoFit ELSE d.fit,
     canvas     |-> IF l.raised THEN BlankCanvas ELSE d.canvas]

AlignerStart(f) ==
    CHOOSE s \in {Constructed(l, redraw(l.kf_points, l.floor_points, BlankCanvas))
                     : l \in {load_correspondences(f, <<>>, <<>>, NoStatus)}} : TRUE

\* The aligner's main on a directory with the map-point file (has_map) or
\* without it.  Without it pc is None and project_to_plane(kf, None) raises
\* in np.vstack([trajectory, None]) (a (n, 3) array cannot be stacked on the
\* (1, 1) array of None), before the window and the PointCloudAligner exist.
ProjectToPlaneRaises(has_map) == ~has_map

NotConstructed ==
    [session |-> "crashed", kf_points |-> <<>>, floor_points |-> <<>>,
     status_var |-> NoStatus, fit |-> NoFit, canvas |-> BlankCanvas]

AlignerMain(f, has_map) ==
    IF ProjectToPlaneRaises(has_map) THEN NotConstructed ELSE AlignerStart(f)

\* The function of the start that raised, if one did.
StartedBy(has_map) == IF ProjectToPlaneRaises(has_map) THEN "main" ELSE "__init__"

\* The gesture tool's variables while the aligner runs.
GestureIdle ==
    /\ mode = NoMode /\ last_mouse_pos = None /\ deform_start = None
    /\ control_src = <<>> /\ control_dst = <<>>
    /\ kf = <<>> /\ pc = <<>>
    /\ stdout = <<>> /\ pressed = FALSE /\ press_at = None

InitAligner ==
    /\ tool = "aligner"
    /\ file \in InitFiles
    /\ map_exists \in BOOLEAN
    /\ LET s == AlignerMain(file, map_exists)
       IN  /\ session = s.session
           /\ kf_points = s.kf_points
           /\ floor_points = s.floor_points
           /\ status_var = s.status_var
           /\ fit = s.fit
           /\ canvas = s.canvas
    /\ selected_kf_point = None
    /\ selected_floor_point = None
    /\ handler = [name |-> StartedBy(map_exists), raised |-> session = "crashed"]
    /\ GestureIdle

\* The window is closed and the aligner is started again on the same
\* directory.
StartAs(s) ==
    /\ session' = s.session
    /\ kf_points' = s.kf_points
    /\ floor_points' = s.floor_points
    /\ status_var' = s.status_var
    /\ fit' = s.fit
    /\ canvas' = s.canvas
    /\ handler' = [name |-> StartedBy(map_exists), raised |-> s.session = "crashed"]

\* A fault: a start that loads onto the lists of the session before instead
\* of onto empty ones.
AlignerRestartKeeping ==
    /\ tool = "aligner"
    /\ \E s \in {IF ProjectToPlaneRaises(map_exists) THEN NotConstructed
                    ELSE Constructed(l, redraw(l.kf_points, l.floor_points, BlankCanvas))
                    : l \in {load_correspondences(file, kf_points, floor_points, NoStatus)}} :
          StartAs(s)
    /\ selected_kf_point' = None
    /\ selected_floor_point' = None
    /\ UNCHANGED <<tool, map_exists, file, gestureVars>>

AlignerRestart ==
    /\ tool = "aligner"
    /\ \E s \in {AlignerMain(file, map_exists)} : StartAs(s)
    /\ selected_kf_point' = None
    /\ selected_floor_point' = None
    /\ UNCHANGED <<tool, map_exists, file, gestureVars>>

(***************************************************************************)
(* PointCloudAligner: the callbacks.                                       *)
(***************************************************************************)
AlignerRunning == tool = "aligner" /\ session = "running"

\* on_click in the top pane at p.
on_click_top(p) ==
    /\ AlignerRunning
    /\ p \in ClickableKf(kf_points)
    /\ selected_kf_point' = p
    /\ LET d == redraw(kf_points, floor_points, canvas)
       IN  /\ fit' = d.fit
           /\ canvas' = d.canvas
           /\ handler' = [name |-> "on_click", raised |-> d.raised]
    /\ UNCHANGED <<tool, map_exists, session, kf_points, floor_points, selected_floor_point,
                   status_var, file, gestureVars>>

\* on_click in the bottom pane at p.
on_click_bottom(p) ==
    /\ AlignerRunning
    /\ p \in Range(FloorClicks)
    /\ selected_floor_point' = p
    /\ LET d == redraw(kf_points, floor_points, canvas)
       IN  /\ fit' = d.fit
           /\ canvas' = d.canvas
           /\ handler' = [name |-> "on_click", raised |-> d.raised]
    /\ UNCHANGED <<tool, map_exists, session, kf_points, floor_points, selected_kf_point,
                   status_var, file, gestureVars>>

\* on_click outside both axes: no selection changes, redraw runs.
on_click_outside ==
    /\ AlignerRunning
    /\ LET d == redraw(kf_points, floor_points, canvas)
       IN  /\ fit' = d.fit
           /\ canvas' = d.canvas
           /\ handler' = [name |-> "on_click", raised |-> d.raised]
    /\ UNCHANGED <<tool, map_exists, session, kf_points, floor_points, selected_kf_point,
                   selected_floor_point, status_var, file, gestureVars>>

\* A fault: add_correspondence leaving the two selections in place.
add_correspondence_keeping ==
    /\ AlignerRunning
    /\ IF selected_kf_point # None /\ selected_floor_point # None
       THEN /\ Len(kf_points) < MaxPairs
            /\ kf_points' = Append(kf_points, selected_kf_point)
            /\ floor_points' = Append(floor_points, selected_floor_point)
            /\ UNCHANGED <<selected_kf_point, selected_floor_point>>
            /\ status_var' = <<"Added", Len(kf_points')>>
            /\ LET d == redraw(kf_points', floor_points', canvas)
               IN  /\ fit' = d.fit
                   /\ canvas' = d.canvas
                   /\ handler' = [name |-> "add_correspondence", raised |-> d.raised]
       ELSE /\ handler' = [name |-> "add_correspondence", raised |-> FALSE]
            /\ UNCHANGED <<kf_points, floor_points, selected_kf_point,
                           selected_floor_point, status_var, fit, canvas>>
    /\ UNCHANGED <<tool, map_exists, session, file, gestureVars>>

add_correspondence ==
    /\ AlignerRunning
    /\ IF selected_kf_point # None /\ selected_floor_point # None
       THEN /\ Len(kf_points) < MaxPairs
            /\ kf_points' = Append(kf_points, selected_kf_point)
            /\ floor_points' = Append(floor_points, selected_floor_point)
            /\ selected_kf_point' = None
            /\ selected_floor_point' = None
            /\ status_var' = <<"Added", Len(kf_points')>>
            /\ LET d == redraw(kf_points', floor_points', canvas)
               IN  /\ fit' = d.fit
                   /\ canvas' = d.canvas
                   /\ handler' = [name |-> "add_correspondence", raised |-> d.raised]
       ELSE /\ handler' = [name |-> "add_correspondence", raised |-> FALSE]
            /\ UNCHANGED <<kf_points, floor_points, selected_kf_point,
                           selected_floor_point, status_var, fit, canvas>>
    /\ UNCHANGED <<tool, map_exists, session, file, gestureVars>>

\* list.pop()
Pop(s) == SubSeq(s, 1, Len(s) - 1)

\* A fault: remove_last_correspondence popping the source list only.
remove_last_unpaired ==
    /\ AlignerRunning
    /\ IF kf_points # <<>>
       THEN /\ kf_points' = Pop(kf_points)
            /\ floor_points' = floor_points
            /\ status_var' = <<"Removed", Len(kf_points')>>
            /\ LET d == redraw(kf_points', floor_points', canvas)
               IN  /\ fit' = d.fit
                   /\ canvas' = d.canvas
                   /\ handler' = [name |-> "remove_last_correspondence", raised |-> d.raised]
       ELSE /\ handler' = [name |-> "remove_last_correspondence", raised |-> FALSE]
            /\ UNCHANGED <<kf_points, floor_points, status_var, fit, canvas>>
    /\ UNCHANGED <<tool, map_exists, session, selected_kf_point, selected_floor_point, file,
                   gestureVars>>

\* A fault: remove_last_correspondence without the test for an empty list;
\* list.pop() on an empty list raises IndexError.
remove_last_unguarded ==
    /\ AlignerRunning
    /\ IF kf_points # <<>>
       THEN /\ kf_points' = Pop(kf_points)
            /\ floor_points' = Pop(floor_points)
            /\ status_var' = <<"Removed", Len(kf_points')>>
            /\ LET d == redraw(kf_points', floor_points', canvas)
               IN  /\ fit' = d.fit
                   /\ canvas' = d.canvas
                   /\ handler' = [name |-> "remove_last_correspondence", raised |-> d.raised]
       ELSE /\ handler' = [name |-> "remove_last_correspondence", raised |-> TRUE]
            /\ UNCHANGED <<kf_points, floor_points, status_var, fit, canvas>>
    /\ UNCHANGED <<tool, map_exists, session, selected_kf_point, selected_floor_point, file,
                   gestureVars>>

remove_last_correspondence ==
    /\ AlignerRunning
    /\ IF kf_points # <<>>
       THEN /\ kf_points' = Pop(kf_points)
            /\ floor_points' = Pop(floor_points)
            /\ status_var' = <<"Removed", Len(kf_points')>>
            /\ LET d == redraw(kf_points', floor_points', canvas)
               IN  /\ fit' = d.fit
                   /\ canvas' = d.canvas
                   /\ handler' = [name |-> "remove_last_correspondence", raised |-> d.raised]
       ELSE /\ handler' = [name |-> "remove_last_correspondence", raised |-> FALSE]
            /\ UNCHANGED <<kf_points, floor_points, status_var, fit, canvas>>
    /\ UNCHANGED <<tool, map_exists, session, selected_kf_point, selected_floor_point, file,
                   gestureVars>>

\* LineText, tabulated once for the points the model clicks (the same values;
\* any other pair is formatted on the spot).
TabulatedPairs == Range(KfClicks) \X Range(FloorClicks)

FormatTable == [pair \in TabulatedPairs |-> LineText(pair[1], pair[2])]

WrittenLine(kf_pt, fl_pt) ==
    IF <<kf_pt, fl_pt>> \in TabulatedPairs
    THEN FormatTable[<<kf_pt, fl_pt>>] ELSE LineText(kf_pt, fl_pt)

\* zip(self.kf_points, self.floor_points), one line per pair.
SavedLines(kfp, flp) ==
    [i \in 1..(IF Len(kfp) < Len(flp) THEN Len(kfp) ELSE Len(flp))
        |-> WrittenLine(kfp[i], flp[i])]

save_correspondences ==
    /\ AlignerRunning
    /\ IF kf_points = <<>> \/ floor_points = <<>>
       THEN /\ status_var' = <<"Nothing to save.", 0>>
            /\ UNCHANGED file
       ELSE /\ file' = FileOf(SavedLines(kf_points, floor_points))
            /\ status_var' = <<"Saved", Len(kf_points)>>
    /\ handler' = [name |-> "save_correspondences", raised |-> FALSE]
    /\ UNCHANGED <<tool, map_exists, session, kf_points, floor_points, selected_kf_point,
                   selected_floor_point, fit, canvas, gestureVars>>

NextAligner ==
    \/ AlignerRestart
    \/ \E p \in Range(KfClicks) : on_click_top(p)
    \/ \E p \in Range(FloorClicks) : on_click_bottom(p)
    \/ on_click_outside
    \/ add_correspondence
    \/ remove_last_correspondence
    \/ save_correspondences

SpecAligner == InitAligner /\ [][NextAligner]_vars


(***************************************************************************)
(* AlignmentGUI: geometry and inputs of the model.                         *)
(***************************************************************************)
RECURSIVE Pow10(_)
Pow10(k) == IF k = 0 THEN 1 ELSE 10 * Pow10(k - 1)

\* The grid unit: coordinates are multiples of it at the start, so that
\* MaxZoom successive scalings by 11/10 or 9/10 stay integral.
Unit == Pow10(MaxZoom)

\* The projected geometry at the start of a session (project_to_plane's
\* output: mean zero, uncorrelated axes, the first axis the longer).
KfStart == << <<-2 * Unit, -Unit>>, <<2 * Unit, -Unit>> >>

PcStart == << <<0, 2 * Unit>> >>

\* Pointer positions inside the axes (event.xdata, event.ydata): the two
\* keyframes' starting positions and a third point on the line through them.
\* None is a pointer outside the axes.  Releases inside the axes happen at
\* ReleasePos.
MousePos == {KfStart[1], KfStart[2], <<4 * Unit, -Unit>>}

ReleasePos == {<<4 * Unit, -Unit>>}

\* The drags of a deformation session start at positions taken in order: a
\* press in deform mode is at the last recorded source or to its right (a
\* restriction of the model's inputs, as for the aligner's clicks; equal and
\* distinct sources both occur).
DeformPressable(p) ==
    IF control_src = <<>> \/ p = None THEN TRUE
    ELSE p[1] >= control_src[Len(control_src)][1]

ScrollSteps == {-1, 1}

Modes == {"move", "zoom", "rotate", "deform"}

Add2(p, q) == <<p[1] + q[1], p[2] + q[2]>>

Sub2(p, q) == <<p[1] - q[1], p[2] - q[2]>>

Scale2(k, p) == <<k * p[1], k * p[2]>>

RECURSIVE Sum2(_)
Sum2(points) ==
    IF points = <<>> THEN <<0, 0>> ELSE Add2(points[1], Sum2(Tail(points)))

Divides(d, p) == p[1] % d = 0 /\ p[2] % d = 0

Div2(p, d) == <<p[1] \div d, p[2] \div d>>

\* points + delta
Translate(points, delta) == [i \in 1..Len(points) |-> Add2(points[i], delta)]

\* (points - center) * zoom + center with center = sum / n and zoom = num / 10,
\* as a numerator over the denominator 10 * n.
ZoomNumerator(p, sum, n, num) == Add2(Scale2(10, sum), Scale2(num, Sub2(Scale2(n, p), sum)))

ZoomExact(points, sum, n, num) ==
    \A i \in 1..Len(points) : Divides(10 * n, ZoomNumerator(points[i], sum, n, num))

ZoomAbout(points, sum, n, num) ==
    [i \in 1..Len(points) |-> Div2(ZoomNumerator(points[i], sum, n, num), 10 * n)]

\* zoom = 1.1 if event.step > 0 else 0.9, in tenths.
ZoomTenths(step) == IF step > 0 THEN 11 ELSE 9

\* np.arctan2 of a vector on a coordinate axis, in quarter turns (arctan2(0, 0)
\* is 0); other vectors have no exact angle in the model.
OnAxis(v) == v[1] = 0 \/ v[2] = 0

QuarterTurns(v) ==
    IF v[2] = 0 THEN (IF v[1] >= 0 THEN 0 ELSE 2)
    ELSE IF v[2] > 0 THEN 1 ELSE 3

\* R @ v for the rotation by q quarter turns.
Turn(q, v) ==
    CASE q = 0 -> v
      [] q = 1 -> <<-v[2], v[1]>>
      [] q = 2 -> <<-v[1], -v[2]>>
      [] q = 3 -> <<v[2], -v[1]>>

\* (points - center) @ R.T + center with center = sum / n, as a numerator over n.
RotateNumerator(p, sum, n, q) == Add2(sum, Turn(q, Sub2(Scale2(n, p), sum)))

RotateExact(points, sum, n, q) ==
    \A i \in 1..Len(points) : Divides(n, RotateNumerator(points[i], sum, n, q))

RotateAbout(points, sum, n, q) ==
    [i \in 1..Len(points) |-> Div2(RotateNumerator(points[i], sum, n, q), n)]

\* The fitted interpolant.  An Rbf interpolant is exact at its nodes (it
\* returns dst[i] at src[i]); away from the nodes its value is a real number
\* the model does not compute.  The candidates stand for it: each is exact at
\* the nodes, and away from them one leaves every point where it is and the
\* others carry every point to one of the targets.
OffNodeTargets(dst) == {None} \cup Range(dst)

Interpolate(src, dst, t, p) ==
    IF \E i \in 1..Len(src) : src[i] = p
    THEN dst[CHOOSE i \in 1..Len(src) : src[i] = p]
    ELSE IF t = None THEN p ELSE t

\* warp(points), by the candidate t.
Warp(points, src, dst, t) == [i \in 1..Len(points) |-> Interpolate(src, dst, t, points[i])]

\* The bound on panning: the centroid's distance from its start, per axis.
PanLimit == 2 * Unit * PanRange

WithinPanLimit(points) ==
    LET c == Sub2(Sum2(points), Sum2(KfStart))
    IN  Abs(c[1]) <= Len(points) * PanLimit /\ Abs(c[2]) <= Len(points) * PanLimit

(***************************************************************************)
(* AlignmentGUI: the start of a session and the callbacks.                 *)
(***************************************************************************)
AlignerIdle ==
    /\ kf_points = <<>> /\ floor_points = <<>>
    /\ selected_kf_point = None /\ selected_floor_point = None
    /\ status_var = NoStatus /\ file = NoFile
    /\ fit = NoFit /\ canvas = BlankCanvas

\* AlignmentGUI.__init__ without the map-point file: point_cloud is None,
\* self.pc_3d becomes np.empty((0, 3)), and project_to_plane raises in
\* pca.transform(pointcloud) (scikit-learn rejects an array of 0 samples),
\* before self.kf, self.pc or any other field is assigned.
TransformRaises(has_map) == ~has_map

InitGesture ==
    /\ tool = "gesture"
    /\ map_exists \in BOOLEAN
    /\ session = (IF TransformRaises(map_exists) THEN "crashed" ELSE "running")
    /\ handler = [name |-> "__init__", raised |-> TransformRaises(map_exists)]
    /\ mode = NoMode
    /\ last_mouse_pos = None
    /\ deform_start = None
    /\ control_src = <<>>
    /\ control_dst = <<>>
    /\ kf = (IF TransformRaises(map_exists) THEN <<>> ELSE KfStart)
    /\ pc = (IF TransformRaises(map_exists) THEN <<>> ELSE PcStart)
    /\ stdout = <<>>
    /\ pressed = FALSE
    /\ press_at = None
    /\ AlignerIdle

GestureRunning == tool = "gesture" /\ session = "running"

set_mode(m) ==
    /\ GestureRunning
    /\ mode' = m
    /\ stdout' = <<"mode enabled", m>>
    /\ UNCHANGED <<tool, map_exists, session, handler, alignerVars, last_mouse_pos, deform_start,
                   control_src, control_dst, kf, pc, pressed, press_at>>

\* on_mouse_press with the pointer at p (None: outside the axes).
on_mouse_press(p) ==
    /\ GestureRunning
    /\ ~pressed
    /\ mode = "deform" => DeformPressable(p)
    /\ pressed' = TRUE
    /\ press_at' = p
    /\ IF mode \in {"move", "rotate", "deform"} /\ p # None
       THEN /\ last_mouse_pos' = p
            /\ deform_start' = IF mode = "deform" THEN p ELSE deform_start
       ELSE UNCHANGED <<last_mouse_pos, deform_start>>
    /\ UNCHANGED <<tool, map_exists, session, handler, alignerVars, mode, control_src, control_dst,
                   kf, pc, stdout>>

\* A fault: on_mouse_release fitting the spline one pair early.
MinDeformPairsEarly == 3 - 1

\* The least number of control pairs on_mouse_release fits a spline from.
MinDeformPairs == 3

\* apply_tps_deformation, from the control lists src and dst: the print, then
\* warp(self.kf), warp(self.pc) and the assignments.  The fit is made inside
\* warp, before anything is assigned, so a fit that raises leaves both arrays.
apply_tps_deformation(src, dst) ==
    /\ stdout' = <<"Applying TPS with", Len(src)>>
    /\ IF RbfRaises(src, dst)
       THEN UNCHANGED <<kf, pc>>
       ELSE \E t \in OffNodeTargets(dst) :
                /\ kf' = Warp(kf, src, dst, t)
                /\ pc' = Warp(pc, src, dst, t)

\* A fault: on_mouse_release starting the control lists afresh with each pair.
on_mouse_release_afresh(p) ==
    /\ GestureRunning
    /\ pressed
    /\ pressed' = FALSE
    /\ press_at' = None
    /\ IF mode = "deform" /\ deform_start # None /\ p # None
       THEN /\ Len(control_src) < MaxControl
            /\ control_src' = <<deform_start>>
            /\ control_dst' = <<p>>
            /\ IF Len(control_src') >= MinDeformPairs
               THEN /\ apply_tps_deformation(control_src', control_dst')
                    /\ IF RbfRaises(control_src', control_dst')
                       THEN UNCHANGED <<deform_start, last_mouse_pos>>
                       ELSE deform_start' = None /\ last_mouse_pos' = None
               ELSE /\ stdout' = <<"Added deform pair", deform_start, p>>
                    /\ deform_start' = None
                    /\ last_mouse_pos' = None
                    /\ UNCHANGED <<kf, pc>>
       ELSE /\ last_mouse_pos' = None
            /\ UNCHANGED <<deform_start, control_src, control_dst, kf, pc, stdout>>
    /\ UNCHANGED <<tool, map_exists, session, handler, alignerVars, mode>>

\* on_mouse_release with the pointer at p (None: outside the axes).
on_mouse_release(p) ==
    /\ GestureRunning
    /\ pressed
    /\ pressed' = FALSE
    /\ press_at' = None
    /\ IF mode = "deform" /\ deform_start # None /\ p # None
       THEN /\ Len(control_src) < MaxControl
            /\ control_src' = Append(control_src, deform_start)
            /\ control_dst' = Append(control_dst, p)
            /\ IF Len(control_src') >= MinDeformPairs
               THEN /\ apply_tps_deformation(control_src', control_dst')
                    /\ IF RbfRaises(control_src', control_dst')
                       THEN UNCHANGED <<deform_start, last_mouse_pos>>
                       ELSE deform_start' = None /\ last_mouse_pos' = None
               ELSE /\ stdout' = <<"Added deform pair", deform_start, p>>
                    /\ deform_start' = None
                    /\ last_mouse_pos' = None
                    /\ UNCHANGED <<kf, pc>>
       ELSE /\ last_mouse_pos' = None
            /\ UNCHANGED <<deform_start, control_src, control_dst, kf, pc, stdout>>
    /\ UNCHANGED <<tool, map_exists, session, handler, alignerVars, mode>>

\* A fault: on_mouse_drag that never moves last_mouse_pos on to the pointer.
on_mouse_drag_anchored(p) ==
    /\ GestureRunning
    /\ IF last_mouse_pos # None /\ p # None
       THEN /\ last_mouse_pos' = last_mouse_pos
            /\ CASE mode = "move" ->
                      /\ kf' = Translate(kf, Sub2(p, last_mouse_pos))
                      /\ pc' = Translate(pc, Sub2(p, last_mouse_pos))
                      /\ WithinPanLimit(kf')
                 [] mode = "rotate" ->
                      LET sum == Sum2(kf)
                          n   == Len(kf)
                          v1  == Sub2(Scale2(n, last_mouse_pos), sum)
                          v2  == Sub2(Scale2(n, p), sum)
                          q   == (QuarterTurns(v2) - QuarterTurns(v1) + 4) % 4
                      IN  /\ OnAxis(v1) /\ OnAxis(v2)
                          /\ RotateExact(kf, sum, n, q) /\ RotateExact(pc, sum, n, q)
                          /\ kf' = RotateAbout(kf, sum, n, q)
                          /\ pc' = RotateAbout(pc, sum, n, q)
                 [] OTHER -> UNCHANGED <<kf, pc>>
       ELSE UNCHANGED <<last_mouse_pos, kf, pc>>
    /\ UNCHANGED <<tool, map_exists, session, handler, alignerVars, mode, deform_start, control_src,
                   control_dst, stdout, pressed, press_at>>

\* on_mouse_drag (a motion event) with the pointer at p.
on_mouse_drag(p) ==
    /\ GestureRunning
    /\ IF last_mouse_pos # None /\ p # None
       THEN /\ last_mouse_pos' = p
            /\ CASE mode = "move" ->
                      /\ kf' = Translate(kf, Sub2(p, last_mouse_pos))
                      /\ pc' = Translate(pc, Sub2(p, last_mouse_pos))
                      /\ WithinPanLimit(kf')
                 [] mode = "rotate" ->
                      LET sum == Sum2(kf)
                          n   == Len(kf)
                          v1  == Sub2(Scale2(n, last_mouse_pos), sum)
                          v2  == Sub2(Scale2(n, p), sum)
                          q   == (QuarterTurns(v2) - QuarterTurns(v1) + 4) % 4
                      IN  /\ OnAxis(v1) /\ OnAxis(v2)
                          /\ RotateExact(kf, sum, n, q) /\ RotateExact(pc, sum, n, q)
                          /\ kf' = RotateAbout(kf, sum, n, q)
                          /\ pc' = RotateAbout(pc, sum, n, q)
                 [] OTHER -> UNCHANGED <<kf, pc>>
       ELSE UNCHANGED <<last_mouse_pos, kf, pc>>
    /\ UNCHANGED <<tool, map_exists, session, handler, alignerVars, mode, deform_start, control_src,
                   control_dst, stdout, pressed, press_at>>

on_scroll(step) ==
    /\ GestureRunning
    /\ IF mode = "zoom"
       THEN LET sum == Sum2(kf)
                n   == Len(kf)
                num == ZoomTenths(step)
            IN  /\ ZoomExact(kf, sum, n, num) /\ ZoomExact(pc, sum, n, num)
                /\ kf' = ZoomAbout(kf, sum, n, num)
                /\ pc' = ZoomAbout(pc, sum, n, num)
       ELSE UNCHANGED <<kf, pc>>
    /\ UNCHANGED <<tool, map_exists, session, handler, alignerVars, mode, last_mouse_pos,
                   deform_start, control_src, control_dst, stdout, pressed,
                   press_at>>

NextGesture ==
    \/ \E m \in Modes : set_mode(m)
    \/ \E p \in MousePos \cup {None} : on_mouse_press(p)
    \/ \E p \in ReleasePos \cup {None} : on_mouse_release(p)
    \/ \E p \in MousePos \cup {None} : on_mouse_drag(p)
    \/ \E step \in ScrollSteps : on_scroll(step)

SpecGesture == InitGesture /\ [][NextGesture]_vars

(***************************************************************************)
(* Either tool on the data directory.                                      *)
(***************************************************************************)
Init == InitAligner \/ InitGesture

Next == NextAligner \/ NextGesture

Spec == Init /\ [][Next]_vars


(***************************************************************************)
(* Properties of the two-pane aligner.                                     *)
(***************************************************************************)
\* C1: in the two-pane aligner the source list and the target list have the
\* same length in every reachable state: after the start-up load and after
\* any sequence of clicks, adds, removes and saves no unpaired point is in
\* the store.
C1_StorePaired == tool = "aligner" => Len(kf_points) = Len(floor_points)

\* A store loaded from the file, grown by an add and cut back by a remove.
C1_PairedAfterRemove ==
    /\ handler.name = "remove_last_correspondence"
    /\ status_var = <<"Removed", 2>>
    /\ Len(kf_points) = 2 /\ Len(floor_points) = 2
    /\ file.exists

\* C2: round trip.  A save followed by a load into a fresh, empty store (the
\* start of the next session) yields exactly the ordered pairs of the store
\* that was saved, for every number of pairs from zero up, whatever the file
\* held before the save.
C2_RoundTrip ==
    [][(handler.name = "save_correspondences" /\ session = "running" /\ AlignerRestart)
          => (kf_points' = kf_points /\ floor_points' = floor_points)]_vars

\* The pairs the correspondence file holds: line i parses to the pair
\* (kfp[i], flp[i]), and there is no other line (a missing file holds none).
FileHoldsExactly(kfp, flp) ==
    /\ Len(file.lines) = Len(kfp)
    /\ \A i \in 1..Len(file.lines) :
          LET r == ParsedLine(file.lines[i])
          IN  ~r.raised /\ r.kf_pt = kfp[i] /\ r.fl_pt = flp[i]

\* C3: save fully overwrites.  After every save the correspondence file holds
\* exactly the pairs currently in the store, in store order, and nothing
\* else; after add, save, remove until empty, save it holds zero pairs.
C3_SaveOverwrites ==
    handler.name = "save_correspondences" => FileHoldsExactly(kf_points, floor_points)

C10_RemoveOnEmpty ==
    [][(handler'.name = "remove_last_correspondence" /\ kf_points = <<>>)
          => /\ ~handler'.raised
             /\ Len(kf_points') = 0 /\ Len(floor_points') = 0
             /\ UNCHANGED <<kf_points, floor_points, selected_kf_point,
                            selected_floor_point, file>>]_vars

\* The state after a remove on an empty store, with a selection pending and
\* pairs in the file: the status line still shows the save, not a removal.
C10_RemovedNothing ==
    /\ handler.name = "remove_last_correspondence"
    /\ kf_points = <<>> /\ floor_points = <<>>
    /\ status_var[1] = "Nothing to save."
    /\ selected_kf_point # None
    /\ file.lines # <<>>


(***************************************************************************)
(* Properties of both tools and of the gesture tool.                       *)
(***************************************************************************)
\* C5 (as amended): every thin-plate-spline fit that is executed takes at
\* least 4 pairs in the two-pane aligner's redraw and at least 3 control
\* pairs in the gesture tool's deform release.
C5_FitInputs ==
    /\ fit.estimator = "NonRigid" => (Len(fit.src) >= 4 /\ Len(fit.dst) >= 4)
    /\ (stdout # <<>> /\ stdout[1] = "Applying TPS with")
          => (stdout[2] >= 3 /\ Len(control_src) >= 3 /\ Len(control_dst) >= 3)

\* The gesture tool right after its third drag: the fit ran on three pairs
\* and moved the trajectory.
C5_FitFromThree ==
    /\ stdout = <<"Applying TPS with", 3>>
    /\ Len(control_src) = 3
    /\ ~RbfRaises(control_src, control_dst)
    /\ kf # KfStart

\* C5 (as claimed): in both tools every thin-plate-spline fit that is
\* executed takes at least 4 pairs.
C5_FourInBothTools ==
    /\ fit.estimator = "NonRigid" => Len(fit.src) >= 4
    /\ (stdout # <<>> /\ stdout[1] = "Applying TPS with") => stdout[2] >= 4

\* C6: a deform-mode release that records a control pair warps the live
\* geometry if and only if the pairs accumulated, the new one included, are
\* at least 3: the first two drags leave trajectory and cloud unchanged, and
\* every later one replaces both by their images under the spline fitted
\* from all the pairs.
C6_WarpFromThird ==
    [][Len(control_src') = Len(control_src) + 1
          => IF Len(control_src') >= 3
             THEN \E t \in OffNodeTargets(control_dst') :
                     /\ kf' = Warp(kf, control_src', control_dst', t)
                     /\ pc' = Warp(pc, control_src', control_dst', t)
             ELSE UNCHANGED <<kf, pc>>]_vars

\* C7: the mode contract.  One of the five modes is active; a motion event
\* changes the geometry only in move or rotate mode while a press is in
\* progress, a scroll only in zoom mode, a release changes geometry or
\* control points only in deform mode, and with no mode selected no event
\* changes geometry or control points.
C7_ModeContract ==
    [][/\ mode \in Modes \cup {NoMode}
       /\ ((\E p \in MousePos \cup {None} : on_mouse_drag(p)) /\ <<kf, pc>>' # <<kf, pc>>)
             => (mode \in {"move", "rotate"} /\ pressed)
       /\ ((\E step \in ScrollSteps : on_scroll(step)) /\ <<kf, pc>>' # <<kf, pc>>)
             => mode = "zoom"
       /\ ((\E p \in ReleasePos \cup {None} : on_mouse_release(p))
              /\ <<kf, pc, control_src, control_dst>>' # <<kf, pc, control_src, control_dst>>)
             => mode = "deform"
       /\ (mode = NoMode /\ mode' = NoMode)
             => UNCHANGED <<kf, pc, control_src, control_dst>>]_vars

\* C8: all or nothing.  When the spline fit fails inside a handler - the
\* redraw of add_correspondence or remove_last_correspondence, or a deform
\* release - the handler leaves the correspondence store, the pending
\* selections, the geometry, the control lists and the pending drag start as
\* they were.
C8_AllOrNothing ==
    [][/\ (handler'.raised
              /\ handler'.name \in {"add_correspondence", "remove_last_correspondence"})
             => UNCHANGED <<kf_points, floor_points, selected_kf_point,
                            selected_floor_point>>
       /\ (\E p \in ReleasePos :
              /\ on_mouse_release(p)
              /\ mode = "deform" /\ deform_start # None
              /\ Len(control_src) + 1 >= MinDeformPairs
              /\ RbfRaises(Append(control_src, deform_start), Append(control_dst, p)))
             => UNCHANGED <<kf, pc, control_src, control_dst, deform_start>>]_vars

\* C9: the zoom inverse law.  The factor of a scroll step is positive, the
\* zoom-out factor is the reciprocal of the zoom-in factor, and so the
\* scroll-out that follows a scroll-in in zoom mode puts every trajectory
\* and cloud point back at its coordinates before the zoom.
C9_ZoomInverse ==
    [][((\E step \in ScrollSteps : step > 0 /\ on_scroll(step)) /\ mode = "zoom")
          => /\ \A step \in ScrollSteps : ZoomTenths(step) > 0
             /\ (ZoomExact(kf', Sum2(kf'), Len(kf'), ZoomTenths(-1))
                    /\ ZoomExact(pc', Sum2(kf'), Len(kf'), ZoomTenths(-1)))
                   => /\ ZoomAbout(kf', Sum2(kf'), Len(kf'), ZoomTenths(-1)) = kf
                      /\ ZoomAbout(pc', Sum2(kf'), Len(kf'), ZoomTenths(-1)) = pc]_vars


C12_OptionalInputs ==
    /\ (tool = "aligner" /\ AlignerStart(file).session = "running")
          => /\ session = "running"
             /\ (~file.exists /\ handler.name \in {"main", "__init__"})
                   => (kf_points = <<>> /\ floor_points = <<>>)
    /\ tool = "gesture"
          => /\ session = "running"
             /\ ~map_exists => pc = <<>>


(***************************************************************************)
(* Further properties of the gesture tool.                                 *)
(***************************************************************************)
\* C13: the control points persist for the whole session.  No event makes
\* control_src or control_dst shorter or clears them, the two lists have
\* equal length, every pair recorded keeps its position and value, and a fit
\* is made from all the pairs recorded so far.
C13_ControlsPersist ==
    [][/\ Len(control_src') >= Len(control_src)
       /\ Len(control_src') = Len(control_dst')
       /\ SubSeq(control_src', 1, Len(control_src)) = control_src
       /\ SubSeq(control_dst', 1, Len(control_dst)) = control_dst
       /\ (stdout' # stdout /\ stdout'[1] = "Applying TPS with")
             => stdout'[2] = Len(control_src')]_vars

\* Three pairs recorded, the warp applied, and the session gone on to zoom
\* mode and a scaled trajectory with the pairs still in the lists.
C13_KeptThroughZoom ==
    /\ mode = "zoom"
    /\ Len(control_src) = 3 /\ Len(control_dst) = 3
    /\ ~RbfRaises(control_src, control_dst)
    /\ \E i \in 1..Len(kf) : kf[i] \notin Range(control_dst) \cup Range(KfStart)


\* C14: no stale fit.  After every add_correspondence and
\* remove_last_correspondence that changes the store, the alignment on
\* screen is the one fitted from exactly the pairs now in the store, and
\* below the estimator's minimum no aligned overlay is on screen.
C14_NoStaleFit ==
    [][(/\ handler'.name \in {"add_correspondence", "remove_last_correspondence"}
        /\ <<kf_points, floor_points>>' # <<kf_points, floor_points>>)
          => IF Len(kf_points') >= MinTpsPairs
             THEN /\ canvas'.aligned
                  /\ canvas'.src = kf_points' /\ canvas'.dst = floor_points'
                  /\ canvas'.markers = Len(floor_points')
             ELSE /\ ~canvas'.aligned
                  /\ canvas'.markers = Len(floor_points')]_vars


\* C15: remove_last_correspondence on a non-empty store removes exactly the
\* most recently added pair from both lists and leaves the earlier pairs and
\* their order; an add puts its pair last and leaves the earlier pairs, so
\* the remove that follows an add restores the store.
C15_RemovesLastPair ==
    [][/\ (handler'.name = "remove_last_correspondence" /\ kf_points # <<>>)
             => /\ Len(kf_points') = Len(kf_points) - 1
                /\ Len(floor_points') = Len(floor_points) - 1
                /\ \A i \in 1..Len(kf_points') :
                      kf_points'[i] = kf_points[i] /\ floor_points'[i] = floor_points[i]
       /\ (handler'.name = "add_correspondence" /\ kf_points' # kf_points)
             => /\ kf_points' = kf_points \o <<selected_kf_point>>
                /\ floor_points' = floor_points \o <<selected_floor_point>>]_vars

\* Two adds from an empty store with no file, then a remove: the first pair
\* is what remains.
C15_FirstPairLeft ==
    /\ handler.name = "remove_last_correspondence"
    /\ status_var = <<"Removed", 1>>
    /\ ~file.exists
    /\ Len(kf_points) = 1 /\ Len(floor_points) = 1


\* C16: pan telescopes.  While a move-mode drag is in progress (the button
\* stays down after a press inside the axes), every event, motion outside
\* the axes included, keeps each trajectory and cloud point at the same
\* offset from the last in-axes pointer position: from the press at p0 to
\* the last position pn every point has moved by exactly pn - p0, whatever
\* the positions in between.
C16_PanTelescopes ==
    [][(/\ mode = "move" /\ mode' = "move"
        /\ pressed /\ pressed'
        /\ last_mouse_pos # None /\ last_mouse_pos' # None)
          => /\ Len(kf') = Len(kf) /\ Len(pc') = Len(pc)
             /\ \A i \in 1..Len(kf) :
                   Sub2(kf'[i], last_mouse_pos') = Sub2(kf[i], last_mouse_pos)
             /\ \A i \in 1..Len(pc) :
                   Sub2(pc'[i], last_mouse_pos') = Sub2(pc[i], last_mouse_pos)]_vars

\* A drag in progress that has carried the untouched start geometry from a
\* press at p0 to another pointer position.
C16_Panned ==
    /\ mode = "move" /\ pressed /\ last_mouse_pos # None
    /\ control_src = <<>>
    /\ \E p0 \in MousePos :
          /\ p0 # last_mouse_pos
          /\ kf = Translate(KfStart, Sub2(last_mouse_pos, p0))
          /\ pc = Translate(PcStart, Sub2(last_mouse_pos, p0))


\* C17: every control pair belongs to a single gesture.  The source point
\* of a pair that a deform release records is the position of the press
\* that began the gesture being released, never the start of an earlier
\* gesture that was finished or abandoned, whatever presses and releases
\* inside or outside the axes and whatever mode switches came between.
C17_PairOfOneGesture ==
    [][Len(control_src') = Len(control_src) + 1
          => (pressed /\ control_src'[Len(control_src')] = press_at)]_vars


\* C18: add_correspondence changes the store only when a source point and a
\* target point are both selected; it then appends exactly that one pair and
\* clears both selections (so the same two clicks are not added twice), and
\* with a selection missing it leaves the store and the selections alone.
C18_AddNeedsBoth ==
    [][handler'.name = "add_correspondence"
          => IF selected_kf_point # None /\ selected_floor_point # None
             THEN /\ kf_points' = Append(kf_points, selected_kf_point)
                  /\ floor_points' = Append(floor_points, selected_floor_point)
                  /\ selected_kf_point' = None /\ selected_floor_point' = None
             ELSE UNCHANGED <<kf_points, floor_points, selected_kf_point,
                              selected_floor_point>>]_vars

\* One pair added, a new click in the top pane only, and Add pressed again:
\* the store still holds the one pair and the selection is still pending.
C18_SecondAddIgnored ==
    /\ handler = [name |-> "add_correspondence", raised |-> FALSE]
    /\ status_var = <<"Added", 1>>
    /\ Len(kf_points) = 1 /\ Len(floor_points) = 1
    /\ selected_kf_point # None /\ selected_floor_point = None

=============================================================================
